---- MODULE Spec2Model ----
(***************************************************************************)
(* Model of the YouTube transcript HTTP service.                           *)
(*   src/index.ts          handler with the yt-dlp fallback                *)
(*   src/unnamed/part_000  handler without fallback (primary only)         *)
(*                                                                         *)
(* Conventions.                                                            *)
(*  - A JavaScript string is a sequence of one-character strings.          *)
(*  - An optional value (undefined / null / absent field) is a sequence of *)
(*    length 0 or 1: None is <<>>, Some(v) is <<v>>.                       *)
(*  - Times are kept in integer milliseconds: the code divides by 1000,    *)
(*    which changes neither sign nor equality of the values.               *)
(***************************************************************************)
EXTENDS Integers, Sequences, FiniteSets, TLC

None == <<>>
Some(v) == <<v>>
IsSome(o) == o # <<>>
Get(o) == o[1]

(***************************************************************************)
(* String primitives of the JavaScript runtime used by the code.           *)
(***************************************************************************)
\* String.prototype.startsWith
StartsWith(s, p) ==
  /\ Len(p) <= Len(s)
  /\ SubSeq(s, 1, Len(p)) = p

\* String.prototype.endsWith
EndsWith(s, p) ==
  /\ Len(p) <= Len(s)
  /\ SubSeq(s, Len(s) - Len(p) + 1, Len(s)) = p

\* String.prototype.substring(n): the part after the first n characters
Substring(s, n) == SubSeq(s, n + 1, Len(s))

\* String.prototype.includes for a non-empty pattern
Includes(s, p) == \E i \in 1..Len(s) : StartsWith(Substring(s, i - 1), p)

\* String.prototype.replace(/pat/g, rep): every non-overlapping occurrence,
\* scanning left to right
RECURSIVE ReplaceAll(_, _, _)
ReplaceAll(s, pat, rep) ==
  IF Len(s) < Len(pat) THEN s
  ELSE IF StartsWith(s, pat)
       THEN rep \o ReplaceAll(Substring(s, Len(pat)), pat, rep)
       ELSE <<Head(s)>> \o ReplaceAll(Tail(s), pat, rep)

\* String.prototype.replace("pat", rep) without the g flag: first occurrence only
RECURSIVE ReplaceFirst(_, _, _)
ReplaceFirst(s, pat, rep) ==
  IF Len(s) < Len(pat) THEN s
  ELSE IF StartsWith(s, pat)
       THEN rep \o Substring(s, Len(pat))
       ELSE <<Head(s)>> \o ReplaceFirst(Tail(s), pat, rep)

\* index of the first character of s that lies in cs, or Len(s)+1
RECURSIVE FirstOf(_, _)
FirstOf(s, cs) ==
  IF s = <<>> \/ Head(s) \in cs THEN 1 ELSE 1 + FirstOf(Tail(s), cs)

\* Array.prototype.join('') over an array of strings
RECURSIVE Join(_)
Join(ss) == IF ss = <<>> THEN <<>> ELSE Head(ss) \o Join(Tail(ss))

(***************************************************************************)
(* Entity Decoder: decodeHtmlEntities                                      *)
(***************************************************************************)
AMP  == <<"&", "a", "m", "p", ";">>
LT   == <<"&", "l", "t", ";">>
GT   == <<"&", "g", "t", ";">>
QUOT == <<"&", "q", "u", "o", "t", ";">>
APOS == <<"&", "#", "3", "9", ";">>
NBSP == <<"&", "n", "b", "s", "p", ";">>
Entities == {AMP, LT, GT, QUOT, APOS, NBSP}

\* the decoder with the g flag forgotten on every pattern
decodeHtmlEntitiesFirstOnly(text) ==
  IF text = <<>> THEN <<>>
  ELSE LET a == ReplaceFirst(text, AMP, <<"&">>)
           b == ReplaceFirst(a, LT, <<"<">>)
           c == ReplaceFirst(b, GT, <<">">>)
           d == ReplaceFirst(c, QUOT, <<"\"">>)
           e == ReplaceFirst(d, APOS, <<"'">>)
       IN  ReplaceFirst(e, NBSP, <<" ">>)

decodeHtmlEntities(text) ==
  IF text = <<>> THEN <<>>
  ELSE LET a == ReplaceAll(text, AMP, <<"&">>)
           b == ReplaceAll(a, LT, <<"<">>)
           c == ReplaceAll(b, GT, <<">">>)
           d == ReplaceAll(c, QUOT, <<"\"">>)
           e == ReplaceAll(d, APOS, <<"'">>)
       IN  ReplaceAll(e, NBSP, <<" ">>)

(***************************************************************************)
(* ID Extractor: extractVideoId, with the URL parsing it relies on         *)
(***************************************************************************)
HTTPS == <<"h", "t", "t", "p", "s", ":", "/", "/">>
HTTP  == <<"h", "t", "t", "p", ":", "/", "/">>
YOUTU_BE        == <<"y", "o", "u", "t", "u", ".", "b", "e">>
YOUTUBE_COM     == <<"y", "o", "u", "t", "u", "b", "e", ".", "c", "o", "m">>
WWW_YOUTUBE_COM == <<"w", "w", "w", ".">> \o YOUTUBE_COM
WATCH  == <<"/", "w", "a", "t", "c", "h">>
EMBED  == <<"/", "e", "m", "b", "e", "d", "/">>
SHORTS == <<"/", "s", "h", "o", "r", "t", "s", "/">>

\* new URL(s) for the http and https schemes: hostname up to the first of
\* / ? #, pathname up to the first of ? # ("/" when empty), search after
\* the ?.  ok = FALSE stands for the TypeError the constructor throws.  A
\* string with any other scheme either throws or parses to a URL whose
\* hostname is none of the three the extractor accepts: both end in null.
URL(s) ==
  LET rest == IF StartsWith(s, HTTPS) THEN Substring(s, Len(HTTPS))
              ELSE Substring(s, Len(HTTP))
      h    == FirstOf(rest, {"/", "?", "#"})
      host == SubSeq(rest, 1, h - 1)
      aft  == Substring(rest, h - 1)
      p    == FirstOf(aft, {"?", "#"})
      path == SubSeq(aft, 1, p - 1)
      qf   == Substring(aft, p - 1)
      q    == IF qf # <<>> /\ Head(qf) = "?"
              THEN SubSeq(qf, 2, FirstOf(qf, {"#"}) - 1) ELSE <<>>
  IN  IF ~(StartsWith(s, HTTPS) \/ StartsWith(s, HTTP)) \/ host = <<>>
        \/ " " \in {host[i] : i \in 1..Len(host)}
      THEN [ok |-> FALSE, hostname |-> <<>>, pathname |-> <<>>, search |-> <<>>]
      ELSE [ok |-> TRUE, hostname |-> host,
            pathname |-> IF path = <<>> THEN <<"/">> ELSE path,
            search |-> q]

\* the pieces of s between occurrences of the character sep
RECURSIVE Split(_, _)
Split(s, sep) ==
  LET i == FirstOf(s, {sep})
  IN  IF i > Len(s) THEN <<s>>
      ELSE <<SubSeq(s, 1, i - 1)>> \o Split(Substring(s, i), sep)

\* url.searchParams.get(name): the value of the first name=value pair, or null
RECURSIVE FirstParam(_, _)
FirstParam(pairs, name) ==
  IF pairs = <<>> THEN None
  ELSE LET pr == Head(pairs)
           e  == FirstOf(pr, {"="})
       IN  IF pr # <<>> /\ SubSeq(pr, 1, e - 1) = name
           THEN Some(Substring(pr, e))
           ELSE FirstParam(Tail(pairs), name)

SearchParamsGet(search, name) == FirstParam(Split(search, "&"), name)

IdLength == 11

extractVideoId(urlOrId) ==
  IF urlOrId = <<>> THEN None
  ELSE IF Len(urlOrId) = IdLength
          /\ ~Includes(urlOrId, <<"/">>) /\ ~Includes(urlOrId, <<"?">>)
       THEN Some(urlOrId)
  ELSE LET url == URL(urlOrId)
       IN  IF ~url.ok THEN None
           ELSE IF url.hostname = YOUTU_BE
                THEN Some(Substring(url.pathname, 1))
           ELSE IF url.hostname \in {WWW_YOUTUBE_COM, YOUTUBE_COM}
                THEN IF url.pathname = WATCH
                     THEN SearchParamsGet(url.search, <<"v">>)
                     ELSE IF StartsWith(url.pathname, EMBED)
                     THEN Some(Substring(url.pathname, Len(EMBED)))
                     ELSE IF StartsWith(url.pathname, SHORTS)
                     THEN Some(Substring(url.pathname, Len(SHORTS)))
                     ELSE None
           ELSE None

(***************************************************************************)
(* Raw transcript segments of the metadata client.                         *)
(*   Snippet   [text : optional string, runs : optional array of run texts]*)
(*   a text field that is "string | Snippet" is                            *)
(*             [str : optional string, obj : optional Snippet]             *)
(*   a millisecond field is an optional natural (a numeric string)         *)
(***************************************************************************)
Snippet(t, r) == [text |-> t, runs |-> r]
StrText(s) == [str |-> Some(s), obj |-> None]
ObjText(sn) == [str |-> None, obj |-> Some(sn)]

\* an object with none of the probed fields
EmptySegment ==
  [transcript_segment_renderer |-> None, cue_group_renderer |-> None,
   text |-> None, runs |-> None, snippet |-> None,
   start_ms |-> None, end_ms |-> None, duration_ms |-> None]

\* x is truthy, for an optional string
TruthyStr(o) == IsSome(o) /\ Get(o) # <<>>

\* runs.map(run => run.text).join('')
RunsJoined(runs) == Join(runs)

\* "if (snippet.text) return ...; if (snippet.runs) return ..." on an
\* optional Snippet: the returned string, or None when neither applies
SnippetText(osn) ==
  IF ~IsSome(osn) THEN None
  ELSE IF TruthyStr(Get(osn).text) THEN Get(osn).text
  ELSE IF IsSome(Get(osn).runs) THEN Some(RunsJoined(Get(osn).runs))
  ELSE None

\* segment.cue_group_renderer?.cues?.[0]?.cue_renderer
FirstCue(segment) ==
  IF ~IsSome(segment.cue_group_renderer) THEN None
  ELSE LET cues == Get(segment.cue_group_renderer).cues
       IN  IF ~IsSome(cues) \/ Get(cues) = <<>> THEN None
           ELSE Get(cues)[1].cue_renderer

\* the first of a sequence of optional results that is present, else ''
RECURSIVE FirstPresent(_)
FirstPresent(os) ==
  IF os = <<>> THEN <<>>
  ELSE IF IsSome(Head(os)) THEN Get(Head(os))
  ELSE FirstPresent(Tail(os))

extractTextFromSegment(segment) ==
  LET tsr == segment.transcript_segment_renderer
      \* lines 75-81
      b1  == IF ~IsSome(tsr) THEN None
             ELSE IF IsSome(Get(tsr).snippet) /\ TruthyStr(Get(Get(tsr).snippet).text)
                  THEN Get(Get(tsr).snippet).text
             ELSE IF TruthyStr(Get(tsr).text) THEN Get(tsr).text
             ELSE IF IsSome(Get(tsr).snippet) /\ IsSome(Get(Get(tsr).snippet).runs)
                  THEN Some(RunsJoined(Get(Get(tsr).snippet).runs))
             ELSE IF IsSome(Get(tsr).runs) THEN Some(RunsJoined(Get(tsr).runs))
             ELSE None
      \* lines 82-86
      cue == FirstCue(segment)
      b2  == IF ~IsSome(cue) THEN None ELSE SnippetText(Get(cue).text)
      \* lines 87-94
      b3  == IF ~IsSome(segment.text) THEN None
             ELSE IF IsSome(Get(segment.text).str)
                  THEN (IF Get(Get(segment.text).str) # <<>>
                        THEN Get(segment.text).str ELSE None)
                  ELSE SnippetText(Get(segment.text).obj)
      \* lines 95-97
      b4  == IF IsSome(segment.runs) THEN Some(RunsJoined(Get(segment.runs)))
             ELSE None
      \* lines 98-102
      b5  == SnippetText(segment.snippet)
  IN  FirstPresent(<<b1, b2, b3, b4, b5>>)

\* the renderer sub-object as the argument of extractTextFromSegment: it
\* has snippet, text (a string) and runs, and neither wrapper field
TsrObject(tsr) ==
  [EmptySegment EXCEPT
     !.text = IF IsSome(tsr.text) THEN Some(StrText(Get(tsr.text))) ELSE None,
     !.runs = tsr.runs,
     !.snippet = tsr.snippet]

\* the cue renderer as the argument of extractTextFromSegment: its text
\* field is a Snippet object
CueObject(cue) ==
  [EmptySegment EXCEPT
     !.text = IF IsSome(cue.text) THEN Some(ObjText(Get(cue.text))) ELSE None]

\* parseFloat(x || '0') in milliseconds
MsOrZero(o) == IF IsSome(o) THEN Get(o) ELSE 0

\* Segment record {text, offset, duration}; times in milliseconds
Seg(t, o, d) == [text |-> t, offset |-> o, duration |-> d]

\* index.ts:244 and part_000:166
RendererDuration(tsr) == MsOrZero(tsr.end_ms) - MsOrZero(tsr.start_ms)

\* index.ts:254-255, the generic shape: duration_ms is not consulted
GenericDurationIndex(g) ==
  IF IsSome(g.end_ms) /\ IsSome(g.start_ms)
  THEN Get(g.end_ms) - Get(g.start_ms) ELSE 0

\* part_000:181-186, the generic shape
GenericDurationPart000(g) ==
  IF IsSome(g.duration_ms) THEN Get(g.duration_ms)
  ELSE IF IsSome(g.end_ms) /\ IsSome(g.start_ms)
       THEN Get(g.end_ms) - Get(g.start_ms) ELSE 0

\* the callback of segments.map: variant is "index" or "part_000"
NormalizeSegment(variant, segment) ==
  IF IsSome(segment.transcript_segment_renderer)
  THEN LET tsr == Get(segment.transcript_segment_renderer)
       IN  Seg(decodeHtmlEntities(extractTextFromSegment(TsrObject(tsr))),
               MsOrZero(tsr.start_ms), RendererDuration(tsr))
  ELSE IF IsSome(FirstCue(segment))
  THEN LET cue == Get(FirstCue(segment))
       IN  Seg(decodeHtmlEntities(extractTextFromSegment(CueObject(cue))),
               MsOrZero(cue.start_offset_ms), MsOrZero(cue.duration_ms))
  ELSE Seg(decodeHtmlEntities(extractTextFromSegment(segment)),
           MsOrZero(segment.start_ms),
           IF variant = "index" THEN GenericDurationIndex(segment)
           ELSE GenericDurationPart000(segment))

\* the predicate of .filter(s => s.text)
KeepSegment(s) == s.text # <<>>

\* segments.map(...).filter(s => s.text)
FormatTranscript(variant, segments) ==
  SelectSeq([i \in 1..Len(segments) |-> NormalizeSegment(variant, segments[i])],
            KeepSegment)

(***************************************************************************)
(* Inputs of the model: what clients send and what the external            *)
(* collaborators (metadata client, yt-dlp, WebVTT parser, file system)     *)
(* answer.                                                                 *)
(***************************************************************************)
NumReqs == 2
Reqs == 1..NumReqs

ID11 == <<"d", "Q", "w", "4", "w", "9", "W", "g", "X", "c", "Q">>
Q_TEXT  == <<"n", "o", "t", " ", "a", " ", "u", "r", "l">>
Q_OTHER == HTTPS \o <<"e", "x", "a", "m", "p", "l", "e", ".", "c", "o", "m", "/", "f", "o", "o">>
Q_NOID  == HTTPS \o YOUTU_BE \o <<"/">>
Q_SHORT == HTTPS \o YOUTU_BE \o <<"/", "a", "b", "c">>

\* req.query.id: absent, or a string
Queries == {None, Some(<<>>), Some(Q_TEXT), Some(Q_OTHER), Some(Q_NOID),
            Some(ID11), Some(Q_SHORT)}

UNTITLED == <<"U", "n", "t", "i", "t", "l", "e", "d", " ", "V", "i", "d", "e", "o">>

\* info.basic_info?.title
InfoTitles == {None, Some(<<>>), Some(<<"R">> \o AMP \o <<"B">>)}

S_hi ==
  [EmptySegment EXCEPT !.transcript_segment_renderer =
     Some([snippet |-> Some(Snippet(Some(<<"H", "i">>), None)), text |-> None,
           runs |-> None, start_ms |-> Some(1000), end_ms |-> Some(2500)])]
S_open ==
  [EmptySegment EXCEPT !.transcript_segment_renderer =
     Some([snippet |-> Some(Snippet(None, Some(<< <<"s">> >>))),
           text |-> Some(<<"B">>),
           runs |-> None, start_ms |-> Some(2000), end_ms |-> None])]
S_cue ==
  [EmptySegment EXCEPT !.cue_group_renderer =
     Some([cues |-> Some(<< [cue_renderer |->
        Some([text |-> Some(Snippet(None, Some(<< <<"a">>, LT >>))),
              start_offset_ms |-> Some(0), duration_ms |-> Some(500)])] >>)])]
S_blank == [EmptySegment EXCEPT !.text = Some(StrText(<<>>))]
S_gen ==
  [EmptySegment EXCEPT !.text = Some(StrText(<<"x">>)), !.start_ms = Some(1000),
                       !.end_ms = Some(3000), !.duration_ms = Some(500)]

\* transcriptData...initial_segments: None when the nested path is absent
TranscriptDatas ==
  {None, Some(<<>>), Some(<<S_blank>>),
   Some(<<S_hi, S_blank, S_cue, S_open, S_gen>>)}

\* errors the metadata client throws: a SyntaxError flag and the message,
\* the message given by the set of probed phrases it contains
PrimaryErrors ==
  {[syntax |-> FALSE, message |-> "socket hang up"],
   [syntax |-> TRUE,  message |-> "Unexpected token < in JSON at position 0"],
   [syntax |-> FALSE, message |-> "This video is unavailable"],
   [syntax |-> FALSE, message |-> "This video is region-locked"],
   [syntax |-> FALSE, message |-> "Transcripts are not available for this video"]}

MSG_BOTH  == "Failed to fetch transcript from both sources."
MSG_NOVTT == "No transcript found (yt-dlp)"
\* the errors of the subprocess and of the WebVTT parser
MSG_EXEC  == "Command failed: yt-dlp"
MSG_PARSE == "Malformed WebVTT"

\* err.message.includes(phrase), over the messages that occur
MessageIncludes(message, phrase) ==
  phrase \in
    CASE message = "Unexpected token < in JSON at position 0" -> {"JSON"}
      [] message = "This video is unavailable" -> {"unavailable"}
      [] message = "This video is region-locked" -> {"region-locked"}
      [] message = "Transcripts are not available for this video" ->
           {"Transcripts are not available for this video"}
      [] message = MSG_NOVTT -> {"No transcript found"}
      [] OTHER -> {}

\* Math.random().toString(36).substring(7): a short random token; two draws
\* can be equal, and one can be a prefix of another
UniqueIds == {<<"k">>, <<"k", "7">>}

VTT_EXT == <<".", "v", "t", "t">>
EN_VTT  == <<".", "e", "n">> \o VTT_EXT

\* a parsed cue {text, start, end}, times in milliseconds; the parser is
\* external and its cues are records of a string and two numbers
Cue(t, s, e) == [text |-> t, start |-> s, end |-> e]

\* what yt-dlp leaves in a subtitle file, by what nodeWebVtt.parse makes
\* of it: a ParserError, or the cue list
VttContents ==
  {[malformed |-> TRUE,  cues |-> <<>>],
   [malformed |-> FALSE, cues |-> <<>>],
   [malformed |-> FALSE, cues |-> <<Cue(<<"o", "k">>, 0, 1500), Cue(<<>>, 1500, 1500)>>]}

(***************************************************************************)
(* State.                                                                  *)
(*   variant  which handler the server runs: "index" (src/index.ts) or     *)
(*            "part_000" (src/unnamed/part_000)                            *)
(*   req[r]   the locals of the handler invocation serving request r, its  *)
(*            position (pc) and a record of which fetchers it has invoked: *)
(*            primary is "running" from the call of the metadata client    *)
(*            until it has yielded "segments" (at least one) or "nothing"  *)
(*            (zero segments, or it threw); fallback is "running" from the *)
(*            call of fetchTranscriptWithYtDlp until it "returned" or      *)
(*            "threw"; infoTitle is the non-empty title getInfo returned,  *)
(*            if any; read is the writer of the subtitle file the fallback *)
(*            read, unlinked whether unlinkSync returned without throwing  *)
(*   tempDir  whether temp_transcripts exists                              *)
(*   files    the files in temp_transcripts: name, content, and the        *)
(*            invocation whose yt-dlp process wrote it                     *)
(*   entityInput, decoded                                                  *)
(*            a text handed to the Entity Decoder and the results of       *)
(*            decoding it once and twice (used by SpecDecode only)         *)
(*   rawSegment, normalized                                                *)
(*            one raw segment of initial_segments and, once the handler's  *)
(*            map and filter have run on it, the segments they leave       *)
(*            (used by SpecNormalize only)                                 *)
(***************************************************************************)
VARIABLES variant, req, tempDir, files, entityInput, decoded, rawSegment,
          normalized
vars == <<variant, req, tempDir, files, entityInput, decoded, rawSegment, normalized>>

IdleReq ==
  [pc |-> "idle", query |-> None, videoId |-> None, videoTitle |-> <<>>,
   infoTitle |-> None, primary |-> "none", fallback |-> "none",
   uniqueId |-> None, read |-> None, unlinked |-> FALSE, response |-> None]

Init ==
  /\ variant \in {"index", "part_000"}
  /\ req = [r \in Reqs |-> IdleReq]
  /\ tempDir = FALSE
  /\ files = {}
  /\ entityInput = <<>>
  /\ decoded = <<>>
  /\ rawSegment = EmptySegment
  /\ normalized = None

\* res.status(400).json({error})
ErrorBody(status, error) ==
  [status |-> status, error |-> Some(error), videoId |-> None,
   videoTitle |-> None, transcript |-> None]

\* res.status(statusCode).json({error, videoId})
ErrorIdBody(status, error, videoId) ==
  [status |-> status, error |-> Some(error), videoId |-> Some(videoId),
   videoTitle |-> None, transcript |-> None]

\* res.status(404).json({videoTitle, error})
NoTranscriptBody(videoTitle) ==
  [status |-> 404, error |-> Some("No transcript available for this video."),
   videoId |-> None, videoTitle |-> Some(videoTitle), transcript |-> None]

\* info.basic_info?.title || 'Untitled Video'
TitleOf(t) == IF TruthyStr(t) THEN Get(t) ELSE UNTITLED

\* decodeHtmlEntities(videoTitle), tabulated over the titles that occur
DecodedTitle ==
  [t \in {TitleOf(o) : o \in InfoTitles} |-> decodeHtmlEntities(t)]

\* res.json({videoTitle: decodeHtmlEntities(videoTitle), transcript})
OkBody(videoTitle, transcript) ==
  [status |-> 200, error |-> None, videoId |-> None,
   videoTitle |-> Some(DecodedTitle[videoTitle]),
   transcript |-> Some(transcript)]

\* the response is sent and the handler returns: its locals are gone
Respond(rq, body) ==
  [rq EXCEPT !.pc = "done", !.response = Some(body), !.uniqueId = None]

\* the input validation with the format check left out
ValidateInputNoFormat(q) ==
  IF ~TruthyStr(q) THEN "missing" ELSE "ok"

\* index.ts:203-213, part_000:129-139
ValidateInput(q) ==
  IF ~TruthyStr(q) THEN "missing"
  ELSE IF ~TruthyStr(extractVideoId(Get(q))) THEN "invalid"
  ELSE "ok"

\* index.ts:272-275: whatever the fallback threw is logged and replaced
FallbackCatch(message) == MSG_BOTH

\* the catch block of index.ts:284-296
CatchIndex(message, videoId) ==
  IF MessageIncludes(message, "No transcript found")
  THEN ErrorIdBody(404, "Transcripts are not available for this video.", videoId)
  ELSE ErrorIdBody(500, "Failed to fetch transcript.", videoId)

\* the catch block of part_000:193-213
CatchPart000(err, videoId) ==
  IF err.syntax /\ MessageIncludes(err.message, "JSON")
  THEN ErrorIdBody(500, "Failed to process data from YouTube. The API response may be malformed or incomplete.", videoId)
  ELSE IF \E ph \in {"private", "unavailable", "premiere", "live"} :
            MessageIncludes(err.message, ph)
  THEN ErrorIdBody(403, "Video is private, unavailable, a live stream, or a premiere without a processed transcript.", videoId)
  ELSE IF MessageIncludes(err.message, "region-locked")
  THEN ErrorIdBody(451, "The video is region-locked and unavailable.", videoId)
  ELSE IF MessageIncludes(err.message, "Transcripts are not available for this video")
  THEN ErrorIdBody(404, "Transcripts are not available for this video.", videoId)
  ELSE ErrorIdBody(500, "Failed to fetch transcript.", videoId)

\* index.ts:203-216, part_000:129-144: the handler from its entry to the
\* first await, as the request record it leaves
Entered(q) ==
  LET rq == [IdleReq EXCEPT !.query = q]
      v  == ValidateInput(q)
  IN  IF v = "missing"
      THEN Respond(rq, ErrorBody(400, "Video ID or URL is required (query param: 'id')"))
      ELSE IF v = "invalid"
      THEN Respond(rq, ErrorBody(400, "Invalid YouTube Video ID or URL format"))
      ELSE [rq EXCEPT !.pc = "create",
                      !.videoId = extractVideoId(Get(q)),
                      !.videoTitle = UNTITLED,
                      !.primary = "running"]

\* the handler's entry over the model's queries
Entries == {Entered(q) : q \in Queries}

\* the request arrives: validation, then the handler suspends on
\* Innertube.create()
Arrive(r) ==
  /\ req[r].pc = "idle"
  /\ \E e \in Entries : req' = [req EXCEPT ![r] = e]
  /\ UNCHANGED <<variant, tempDir, files, entityInput, decoded, rawSegment, normalized>>

\* Innertube.create() resolves; the handler suspends on getInfo
CreateResolved(r) ==
  /\ req[r].pc = "create"
  /\ req' = [req EXCEPT ![r].pc = "getInfo"]
  /\ UNCHANGED <<variant, tempDir, files, entityInput, decoded, rawSegment, normalized>>

\* getInfo resolves; the title is taken and the handler suspends on
\* getTranscript
GetInfoResolved(r) ==
  /\ req[r].pc = "getInfo"
  /\ \E t \in InfoTitles :
       req' = [req EXCEPT ![r].pc = "getTranscript",
                          ![r].videoTitle = TitleOf(t),
                          ![r].infoTitle = IF TruthyStr(t) THEN t ELSE None]
  /\ UNCHANGED <<variant, tempDir, files, entityInput, decoded, rawSegment, normalized>>

\* the output stem `${videoId}_${uniqueId}` (file name part of outputPath)
Stem(videoId, uniqueId) == videoId \o <<"_">> \o uniqueId

\* index.ts:136-162: scratch directory, stem, yt-dlp started; the handler
\* suspends on the subprocess.  The User-Agent drawn at line 155 only goes
\* into the command line and is not part of the state.
StartFallback(rq, uid) ==
  [rq EXCEPT !.fallback = "running", !.uniqueId = Some(uid), !.pc = "exec"]

\* the fallback condition ignored: yt-dlp is always tried
NeedsFallbackAlways(transcript) == TRUE

\* index.ts:267
NeedsFallback(transcript) == Len(transcript) = 0

\* the Innertube catch block forgetting the title already obtained
OnInnertubeErrorLosesTitle(rq) ==
  [rq EXCEPT !.primary = "nothing", !.videoTitle = UNTITLED]

\* index.ts:260-264: the error is logged and swallowed; videoTitle keeps
\* the value it had when the error was thrown
OnInnertubeError(rq) == [rq EXCEPT !.primary = "nothing"]

\* index.ts:266-282 in a state where no fallback is needed or it has returned
Answer(rq, transcript) ==
  IF Len(transcript) = 0 THEN Respond(rq, NoTranscriptBody(rq.videoTitle))
  ELSE Respond(rq, OkBody(rq.videoTitle, transcript))

\* what the primary fetch of index.ts leaves in formattedTranscript, over
\* the model's transcript data
FormattedIndex ==
  {IF IsSome(d) THEN FormatTranscript("index", Get(d)) ELSE <<>> :
     d \in TranscriptDatas}

\* create, getInfo or getTranscript throws
InnertubeThrows(r) ==
  /\ req[r].pc \in {"create", "getInfo", "getTranscript"}
  /\ \E err \in PrimaryErrors, uid \in UniqueIds :
       IF variant = "index"
       THEN /\ req' = [req EXCEPT ![r] =
                 IF NeedsFallback(<<>>)
                 THEN StartFallback(OnInnertubeError(req[r]), uid)
                 ELSE Answer(OnInnertubeError(req[r]), <<>>)]
            /\ tempDir' = TRUE
       ELSE /\ req' = [req EXCEPT ![r] =
                 Respond([req[r] EXCEPT !.primary = "nothing"],
                         CatchPart000(err, Get(req[r].videoId)))]
            /\ UNCHANGED tempDir
  /\ UNCHANGED <<variant, files, entityInput, decoded, rawSegment, normalized>>

\* getTranscript resolves (index.ts:229-282 up to the fallback's await)
GetTranscriptResolvedIndex(r) ==
  /\ variant = "index"
  /\ req[r].pc = "getTranscript"
  /\ \E formatted \in FormattedIndex, uid \in UniqueIds :
       LET rq == [req[r] EXCEPT !.primary =
                    IF Len(formatted) = 0 THEN "nothing" ELSE "segments"]
       IN  IF NeedsFallback(formatted)
           THEN /\ req' = [req EXCEPT ![r] = StartFallback(rq, uid)]
                /\ tempDir' = TRUE
           ELSE /\ req' = [req EXCEPT ![r] = Answer(rq, formatted)]
                /\ UNCHANGED tempDir
  /\ UNCHANGED <<variant, files, entityInput, decoded, rawSegment, normalized>>

\* part_000:151-189 over the model's transcript data: None when the
\* nested path is absent, else the formatted transcript
FormattedPart000 ==
  {IF IsSome(d) THEN Some(FormatTranscript("part_000", Get(d))) ELSE None :
     d \in TranscriptDatas}

\* getTranscript resolves (part_000:149-191)
GetTranscriptResolvedPart000(r) ==
  /\ variant = "part_000"
  /\ req[r].pc = "getTranscript"
  /\ \E d \in FormattedPart000 :
       LET rq == [req[r] EXCEPT !.primary =
                    IF IsSome(d) /\ Len(Get(d)) > 0
                    THEN "segments" ELSE "nothing"]
       IN  req' = [req EXCEPT ![r] =
             IF ~IsSome(d) THEN Respond(rq, NoTranscriptBody(rq.videoTitle))
             ELSE Respond(rq, OkBody(rq.videoTitle, Get(d)))]
  /\ UNCHANGED <<variant, tempDir, files, entityInput, decoded, rawSegment, normalized>>

\* the file yt-dlp writes for an output stem: <stem>.en.vtt
SubtitleFile(r, content) ==
  [name |-> Stem(Get(req[r].videoId), Get(req[r].uniqueId)) \o EN_VTT,
   writer |-> r, content |-> content]

\* the yt-dlp subprocess of invocation r ends with exit 0, having written
\* no subtitle file (the video has none) or the file <stem>.en.vtt,
\* replacing a file of that name
YtDlpExit(r) ==
  /\ req[r].pc = "exec"
  /\ req' = [req EXCEPT ![r].pc = "execOk"]
  /\ \/ UNCHANGED files
     \/ \E c \in VttContents :
          LET f == SubtitleFile(r, c)
          IN  files' = {g \in files : g.name # f.name} \cup {f}
  /\ UNCHANGED <<variant, tempDir, entityInput, decoded, rawSegment, normalized>>

\* index.ts:163-166 and 272-275: the subprocess fails and execPromise
\* rejects; the error is rethrown, caught by the handler and replaced by
\* the both-sources error
ExecRejected(r) ==
  /\ req[r].pc = "exec"
  /\ req' = [req EXCEPT ![r] =
       Respond([req[r] EXCEPT !.fallback = "threw"],
               CatchIndex(FallbackCatch(MSG_EXEC), Get(req[r].videoId)))]
  /\ UNCHANGED <<variant, tempDir, files, entityInput, decoded, rawSegment, normalized>>

\* generatedFiles.find(f => f.startsWith(stem) && f.endsWith('.vtt')):
\* the files find may return (readdirSync fixes no order)
Candidates(r) ==
  {f \in files :
     /\ StartsWith(f.name, Stem(Get(req[r].videoId), Get(req[r].uniqueId)))
     /\ EndsWith(f.name, VTT_EXT)}

\* cleanup placed after a successful parse only
FilesAfterCleanupOnSuccess(fs, f, unlinkOk, malformed) ==
  IF unlinkOk /\ ~malformed THEN fs \ {f} ELSE fs

\* index.ts:178-183: unlinkSync before the parse; a throw is logged and
\* ignored
FilesAfterCleanup(fs, f, unlinkOk, malformed) ==
  IF unlinkOk THEN fs \ {f} ELSE fs

\* index.ts:188-192
CueToSegment(cue) == Seg(cue.text, cue.start, cue.end - cue.start)

\* index.ts:168-195 and 270-282: execPromise resolves and the invocation
\* runs to its response without suspending again
ExecResolved(r) ==
  /\ req[r].pc = "execOk"
  /\ LET found == Candidates(r) IN
     IF found = {}
     THEN /\ req' = [req EXCEPT ![r] =
               Respond([req[r] EXCEPT !.fallback = "threw"],
                       CatchIndex(FallbackCatch(MSG_NOVTT), Get(req[r].videoId)))]
          /\ UNCHANGED files
     ELSE \E f \in found, unlinkOk \in BOOLEAN :
            LET rq == [req[r] EXCEPT !.read = Some(f.writer), !.unlinked = unlinkOk]
                transcript == [i \in 1..Len(f.content.cues) |->
                                 CueToSegment(f.content.cues[i])]
            IN  /\ files' = FilesAfterCleanup(files, f, unlinkOk, f.content.malformed)
                /\ req' = [req EXCEPT ![r] =
                     IF f.content.malformed
                     THEN Respond([rq EXCEPT !.fallback = "threw"],
                                  CatchIndex(FallbackCatch(MSG_PARSE), Get(rq.videoId)))
                     ELSE Answer([rq EXCEPT !.fallback = "returned"], transcript)]
  /\ UNCHANGED <<variant, tempDir, entityInput, decoded, rawSegment, normalized>>

Next ==
  \E r \in Reqs :
    \/ Arrive(r)
    \/ CreateResolved(r)
    \/ GetInfoResolved(r)
    \/ InnertubeThrows(r)
    \/ GetTranscriptResolvedIndex(r)
    \/ GetTranscriptResolvedPart000(r)
    \/ YtDlpExit(r)
    \/ ExecRejected(r)
    \/ ExecResolved(r)

Spec == Init /\ [][Next]_vars

(***************************************************************************)
(* The Entity Decoder on its own: a text is drawn and decoded twice.       *)
(***************************************************************************)
MaxTokens == 3

\* the pieces texts are built from: the six entities and fragments of them
Tokens ==
  {<<"&">>, <<"a", "m", "p">>, <<";">>, <<"l", "t", ";">>, <<"x">>,
   AMP, LT, GT, QUOT, APOS, NBSP}

RECURSIVE TextsOf(_)
TextsOf(n) ==
  IF n = 0 THEN {<<>>}
  ELSE LET shorter == TextsOf(n - 1)
       IN  shorter \cup {t \o k : t \in shorter, k \in Tokens}

DecoderInputs == TextsOf(MaxTokens)

InitDecode ==
  /\ variant = "index"
  /\ req = [r \in Reqs |-> IdleReq]
  /\ tempDir = FALSE
  /\ files = {}
  /\ entityInput \in DecoderInputs
  /\ decoded = <<>>
  /\ rawSegment = EmptySegment
  /\ normalized = None

\* decodeHtmlEntities applied to the text, then to its own result
Decode ==
  /\ Len(decoded) < 2
  /\ decoded' = Append(decoded,
       decodeHtmlEntities(IF decoded = <<>> THEN entityInput ELSE decoded[1]))
  /\ UNCHANGED <<variant, req, tempDir, files, entityInput, rawSegment,
                 normalized>>

NextDecode == Decode

SpecDecode == InitDecode /\ [][NextDecode]_vars

(***************************************************************************)
(* The Segment Normalizer on its own: one raw segment is drawn and goes    *)
(* through the map and filter of the handler of either variant.            *)
(***************************************************************************)
\* values of an optional Snippet
Snippets ==
  {None} \cup
  {Some(Snippet(t, r)) :
     t \in {None, Some(<<>>), Some(<<"S">>)},
     r \in {None, Some(<< <<"p">>, <<"q">> >>)}}

\* segments of the renderer shape
RendererSegments ==
  {[EmptySegment EXCEPT !.transcript_segment_renderer =
      Some([snippet |-> sn, text |-> t, runs |-> r,
            start_ms |-> st, end_ms |-> en])] :
     sn \in Snippets,
     t \in {None, Some(<<>>), Some(<<"T">>)},
     r \in {None, Some(<< <<"u">>, <<"v">> >>)},
     st \in {None, Some(1000)},
     en \in {Some(2500)}}

\* segments of the generic shape
GenericSegments ==
  {[EmptySegment EXCEPT !.text = t, !.start_ms = st, !.end_ms = en,
                        !.duration_ms = du] :
     t \in {None, Some(StrText(<<"x">>))},
     st \in {None, Some(1000)},
     en \in {None, Some(3000)},
     du \in {None, Some(500)}}

RawSegments == RendererSegments \cup GenericSegments \cup {S_cue}

InitNormalize ==
  /\ variant \in {"index", "part_000"}
  /\ req = [r \in Reqs |-> IdleReq]
  /\ tempDir = FALSE
  /\ files = {}
  /\ entityInput = <<>>
  /\ decoded = <<>>
  /\ rawSegment \in RawSegments
  /\ normalized = None

\* segments.map(...).filter(...) on the one-element array [rawSegment]
Normalize ==
  /\ normalized = None
  /\ normalized' = Some(FormatTranscript(variant, <<rawSegment>>))
  /\ UNCHANGED <<variant, req, tempDir, files, entityInput, decoded, rawSegment>>

NextNormalize == Normalize

SpecNormalize == InitNormalize /\ [][NextNormalize]_vars

(***************************************************************************)
(* Properties.                                                             *)
(***************************************************************************)
TypeOK ==
  /\ variant \in {"index", "part_000"}
  /\ tempDir \in BOOLEAN
  /\ \A r \in Reqs :
       /\ req[r].pc \in {"idle", "create", "getInfo", "getTranscript", "exec",
                         "execOk", "done"}
       /\ req[r].primary \in {"none", "running", "segments", "nothing"}
       /\ req[r].fallback \in {"none", "running", "returned", "threw"}

Done(r) == req[r].pc = "done"
Response(r) == Get(req[r].response)

\* the fallback of request r has ended without a segment: it threw, or it
\* returned the empty list
FallbackYieldedNothing(r) ==
  /\ Done(r)
  /\ \/ req[r].fallback = "threw"
     \/ req[r].fallback = "returned" /\ ~IsSome(Response(r).transcript)

\* C1: in the handler with fallback, when the primary fetch yielded nothing
\* and the fallback then returns zero segments or throws, the response has
\* status 404 and a body with an error message and the resolved videoId.
C1_FallbackFailureIs404 ==
  \A r \in Reqs :
    (variant = "index" /\ req[r].primary = "nothing" /\ FallbackYieldedNothing(r))
      => /\ Response(r).status = 404
         /\ IsSome(Response(r).error)
         /\ Response(r).videoId = req[r].videoId

\* C2: the fallback fetcher is started only after the primary fetch has
\* ended with zero segments or thrown, the two never run at the same time,
\* and a primary fetch with at least one segment is answered 200 with
\* {videoTitle, transcript} without the fallback ever being invoked.
C2_FallbackOnlyAfterEmptyPrimary ==
  \A r \in Reqs :
    /\ req[r].fallback # "none" => req[r].primary = "nothing"
    /\ ~(req[r].primary = "running" /\ req[r].fallback = "running")
    /\ req[r].primary = "segments" =>
         /\ Done(r)
         /\ Response(r).status = 200
         /\ IsSome(Response(r).videoTitle)
         /\ IsSome(Response(r).transcript)
         /\ Len(Get(Response(r).transcript)) >= 1
         /\ req[r].fallback = "none"

\* a request answered 200 from the primary fetch while another request is
\* in its fallback
C2_Witness ==
  \E r, t \in Reqs :
    /\ variant = "index"
    /\ req[r].primary = "segments" /\ Done(r) /\ Response(r).status = 200
    /\ req[t].primary = "nothing" /\ req[t].fallback = "running"

\* the queries with no id, and those whose id the ID Extractor rejects
RejectedQueries ==
  {q \in Queries : ~TruthyStr(q) \/ ~TruthyStr(extractVideoId(Get(q)))}

\* C3: a request without an id parameter, or whose id the ID Extractor
\* rejects, is answered 400 at once and invokes neither fetcher, in both
\* handler variants.
C3_RejectedIdIs400 ==
  \A r \in Reqs :
    (req[r].pc # "idle" /\ req[r].query \in RejectedQueries)
      => /\ Done(r)
         /\ Response(r).status = 400
         /\ req[r].primary = "none"
         /\ req[r].fallback = "none"

\* both kinds of rejected request have been answered: one without id, one
\* with an id the extractor rejects
C3_Witness ==
  \E r, t \in Reqs :
    /\ Done(r) /\ req[r].query = None /\ Response(r).status = 400
    /\ Done(t) /\ req[t].query = Some(Q_TEXT) /\ Response(t).status = 400

\* C4: every segment in the transcript of a 200 response has non-empty
\* text, whichever fetcher produced it.
C4_NoEmptyText ==
  \A r \in Reqs :
    (Done(r) /\ Response(r).status = 200) =>
      \A i \in 1..Len(Get(Response(r).transcript)) :
        Get(Response(r).transcript)[i].text # <<>>

\* the fallback of request r is between its start and its end
InFallback(r) == req[r].pc \in {"exec", "execOk"}

\* C5: concurrent fallback invocations never share a scratch file name, and
\* an invocation finds, reads and deletes only the file written for it.
C5_NoScratchCollision ==
  /\ \A r, t \in Reqs :
       (r # t /\ InFallback(r) /\ InFallback(t)) =>
         Stem(Get(req[r].videoId), Get(req[r].uniqueId))
           # Stem(Get(req[t].videoId), Get(req[t].uniqueId))
  /\ \A r \in Reqs : IsSome(req[r].read) => Get(req[r].read) = r

\* the title a response should carry: the one getInfo returned, else
\* "Untitled Video", after the single decoding of the final title
BestKnownTitle(r) ==
  DecodedTitle[IF IsSome(req[r].infoTitle) THEN Get(req[r].infoTitle) ELSE UNTITLED]

\* C6: when the fallback succeeds with at least one segment, the 200
\* response carries the title the primary metadata fetch returned, if it
\* returned one (also when the transcript fetch then threw or was empty),
\* and "Untitled Video" otherwise.
C6_FallbackKeepsTitle ==
  \A r \in Reqs :
    (Done(r) /\ req[r].fallback = "returned" /\ Response(r).status = 200)
      => Response(r).videoTitle = Some(BestKnownTitle(r))

\* a fallback success for a request whose metadata fetch had returned a title
C6_Witness ==
  \E r \in Reqs :
    /\ Done(r) /\ req[r].fallback = "returned" /\ Response(r).status = 200
    /\ IsSome(req[r].infoTitle)

\* C7: every videoId a fetcher is invoked with has exactly 11 characters.
C7_IdHasElevenChars ==
  \A r \in Reqs :
    (req[r].primary # "none" \/ req[r].fallback # "none")
      => Len(Get(req[r].videoId)) = IdLength

\* C8: every emitted segment has offset >= 0 and duration >= 0 (all
\* millisecond fields of the model's raw segments are naturals or absent).
C8_NonNegativeTimes ==
  \A r \in Reqs :
    (Done(r) /\ Response(r).status = 200) =>
      \A i \in 1..Len(Get(Response(r).transcript)) :
        /\ Get(Response(r).transcript)[i].offset >= 0
        /\ Get(Response(r).transcript)[i].duration >= 0

\* text contains one of the six recognized entity sequences
HasEntity(text) == \E e \in Entities : Includes(text, e)

\* C9 as stated: decoding the decoded text again changes nothing.
C9_Idempotent ==
  Len(decoded) = 2 => decoded[2] = decoded[1]

\* C9 amended: decoding twice equals decoding once exactly when no
\* recognized entity remains in the decoded text, which is the case for
\* every input that does not contain "&amp;".
C9_IdempotentWithoutAmp ==
  Len(decoded) = 2 =>
    /\ (decoded[2] = decoded[1]) <=> ~HasEntity(decoded[1])
    /\ ~Includes(entityInput, AMP) => decoded[2] = decoded[1]

\* a text with entities but no "&amp;" has been decoded twice
C9_Witness ==
  /\ Len(decoded) = 2
  /\ HasEntity(entityInput)
  /\ ~Includes(entityInput, AMP)
  /\ decoded[1] # entityInput

\* in this step invocation r finds and reads a subtitle file
Reads(r) == ~IsSome(req[r].read) /\ IsSome(req'[r].read)

\* in this step a file that find could return for r leaves the directory
Removes(r) == \E f \in Candidates(r) : f \in files /\ f \notin files'

\* C10 as stated: the file a fallback invocation found and read is removed
\* before the invocation ends, whether the parse succeeds or fails.
C10_ReadFileRemoved ==
  [][\A r \in Reqs : Reads(r) => Removes(r)]_vars

\* C10 amended: it is removed, whether the parse succeeds or fails,
\* unless unlinkSync itself throws.
C10_ReadFileRemovedUnlessUnlinkThrows ==
  [][\A r \in Reqs : (Reads(r) /\ req'[r].unlinked) => Removes(r)]_vars

\* an invocation read its file, unlinkSync returned, and the parse failed
C10_Witness ==
  \E r \in Reqs :
    /\ IsSome(req[r].read) /\ req[r].unlinked
    /\ req[r].fallback = "threw"

\* the text of a renderer sub-object by the priority snippet.text, then
\* snippet.runs joined, then text, then runs joined: the first one that is
\* present and non-empty, else ''
PriorityRendererText(tsr) ==
  LET nonEmpty(o) == IF IsSome(o) /\ Get(o) # <<>> THEN o ELSE None
      joined(r)   == IF IsSome(r) THEN Some(RunsJoined(Get(r))) ELSE None
      sn == tsr.snippet
  IN  FirstPresent(<<
        IF IsSome(sn) THEN nonEmpty(Get(sn).text) ELSE None,
        IF IsSome(sn) THEN nonEmpty(joined(Get(sn).runs)) ELSE None,
        nonEmpty(tsr.text),
        nonEmpty(joined(tsr.runs)) >>)

\* C11: for a raw segment with a transcript-segment-renderer sub-object the
\* emitted text is, before entity decoding, the first present and
\* non-empty of snippet.text, snippet.runs joined, text, runs joined.
C11_RendererTextPriority ==
  (IsSome(normalized) /\ IsSome(rawSegment.transcript_segment_renderer)) =>
    LET wanted == decodeHtmlEntities(
                    PriorityRendererText(Get(rawSegment.transcript_segment_renderer)))
        out    == Get(normalized)
    IN  /\ wanted # <<>> => Len(out) = 1
        /\ \A i \in 1..Len(out) : out[i].text = wanted

\* rawSegment has neither the renderer nor the cue-group shape
IsGenericShape(segment) ==
  /\ ~IsSome(segment.transcript_segment_renderer)
  /\ ~IsSome(FirstCue(segment))

\* C12: for a generic-shape raw segment the emitted duration is duration_ms
\* when present, else end_ms - start_ms when both are present, else 0, in
\* both handler variants.
C12_GenericDuration ==
  (IsSome(normalized) /\ IsGenericShape(rawSegment)) =>
    \A i \in 1..Len(Get(normalized)) :
      Get(normalized)[i].duration =
        IF IsSome(rawSegment.duration_ms) THEN Get(rawSegment.duration_ms)
        ELSE IF IsSome(rawSegment.start_ms) /\ IsSome(rawSegment.end_ms)
             THEN Get(rawSegment.end_ms) - Get(rawSegment.start_ms)
        ELSE 0
====
